---- MODULE Spec2Model ----
(***************************************************************************)
(* Verification model of the research-assistant workflow:                  *)
(*   src/src/workflows/flow.py   ResearchAssistantFlow (the staged flow)   *)
(*   src/src/tools/*.py          the four source adapters                  *)
(*   src/src/rag/*.py            RAGPipeline and MilvusVectorDB            *)
(*   src/src/memory/memory.py    ZepMemoryLayer                            *)
(*   src/app.py                  StreamlitResearchAssistant.query          *)
(*                                                                         *)
(* Texts are sequences of one-character strings.  Confidences and          *)
(* similarity scores are integers in hundredths (0.98 is 98).              *)
(* External services (Milvus, Zep, Firecrawl, arXiv, the LLM agents) are   *)
(* nondeterministic: every call either throws or returns one of a bounded  *)
(* set of responses.                                                       *)
(***************************************************************************)
EXTENDS Integers, Sequences, FiniteSets, TLC

VARIABLES
    index,      \* rows of the Milvus collection "research_assistant"
    zep,        \* Zep threads: thread id -> sequence of saved messages
    lastCall,   \* the most recent direct adapter call and what it returned
    pc,         \* stage of the current request
    req,        \* number of the current request
    state,      \* the flow's ResearchAssistantState (self.state)
    flow_state, \* the dict handed from one flow stage to the next
    result,     \* what StreamlitResearchAssistant.query returned
    log,        \* events of the current request, in program order
    sum,        \* input and output of a _summarize_for_memory call
    mem,        \* the ZepMemoryLayer object built last, used directly
    gen         \* input and output of a StructuredResponseGen.generate call

vars == <<index, zep, lastCall, pc, req, state, flow_state, result, log, sum, mem, gen>>

(***************************************************************************)
(* Bounds                                                                  *)
(***************************************************************************)
MaxTextLen == 7       \* longest text handed to _summarize_for_memory
MaxBudget == 6        \* largest max_length handed to _summarize_for_memory
MaxChunksPerDoc == 1  \* most chunks the parser returns for one document
MaxHits == 1          \* most hits a vector search returns
MaxResults == 1       \* most results a web or arXiv search returns
MaxRequests == 2      \* queries issued to one assistant
MaxRows == 1          \* rows the collection can hold
MaxMessages == 2      \* messages saved to a thread by direct calls
MaxSessions == 2      \* ZepMemoryLayer objects built, the flow's included

Max(S) == CHOOSE x \in S : \A y \in S : y <= x

(***************************************************************************)
(* Texts and _summarize_for_memory                                         *)
(***************************************************************************)
Alphabet == {"a", ".", "!", " "}

TextsUpTo(n) == UNION {[1..k -> Alphabet] : k \in 0..n}

\* the bracketed notice is one symbol of the text
Notice == "[Response truncated for memory storage]"
SentenceMarker == <<" ", Notice>>
EllipsisMarker == <<".", ".", ".", " ", Notice>>

\* str.rfind: 0-based index of the last occurrence of c in s, -1 if none
rfind(s, c) ==
    LET at == {i \in 1..Len(s) : s[i] = c}
    IN  IF at = {} THEN -1 ELSE Max(at) - 1

\* x > max_length * 0.7 and x > max_length * 0.8, in tenths
AboveSentenceThreshold(x, max_length) == 10 * x > 7 * max_length
AboveWordThreshold_mut(x, max_length) == 10 * x > 7 * max_length
AboveWordThreshold(x, max_length) == 10 * x > 8 * max_length

_summarize_for_memory_mut(response, max_length) ==
    IF Len(response) <= max_length
    THEN response
    ELSE LET truncated == SubSeq(response, 1, max_length + 1)
             last_sentence_end == Max({rfind(truncated, "."),
                                       rfind(truncated, "!"),
                                       rfind(truncated, "?")})
         IN  IF AboveSentenceThreshold(last_sentence_end, max_length)
             THEN SubSeq(truncated, 1, last_sentence_end + 1) \o SentenceMarker
             ELSE LET last_space == rfind(truncated, " ")
                  IN  IF AboveWordThreshold(last_space, max_length)
                      THEN SubSeq(truncated, 1, last_space) \o EllipsisMarker
                      ELSE truncated \o EllipsisMarker

_summarize_for_memory(response, max_length) ==
    IF Len(response) <= max_length
    THEN response
    ELSE LET truncated == SubSeq(response, 1, max_length)
             last_sentence_end == Max({rfind(truncated, "."),
                                       rfind(truncated, "!"),
                                       rfind(truncated, "?")})
         IN  IF AboveSentenceThreshold(last_sentence_end, max_length)
             THEN SubSeq(truncated, 1, last_sentence_end + 1) \o SentenceMarker
             ELSE LET last_space == rfind(truncated, " ")
                  IN  IF AboveWordThreshold(last_space, max_length)
                      THEN SubSeq(truncated, 1, last_space) \o EllipsisMarker
                      ELSE truncated \o EllipsisMarker

QueryMemoryLimit == 1500
ResponseMemoryLimit == 2000

(***************************************************************************)
(* Evidence Records                                                        *)
(***************************************************************************)
Record(status, source_used, citations, confidence) ==
    [status |-> status, source_used |-> source_used,
     citations |-> citations, confidence |-> confidence]

\* what a tool call did: the record it returned, or that it raised
Returned(rec, threw, empty) ==
    [raised |-> FALSE, rec |-> rec, backendThrew |-> threw, emptyResult |-> empty]
Raised(threw) ==
    [raised |-> TRUE, rec |-> Record("NONE", "NONE", <<>>, 0),
     backendThrew |-> threw, emptyResult |-> FALSE]

(***************************************************************************)
(* MemoryTool (src/src/tools/memory_tool.py) over ZepMemoryLayer           *)
(***************************************************************************)
DefaultThread == "default_thread"
RequestThread == "streamlit_session"
ThreadIds == {DefaultThread, RequestThread}

\* the flow builds its ZepMemoryLayer in __init__ from the default state
FlowThread == DefaultThread

\* thread.get_user_context either throws or returns a context block that
\* reflects some prefix of the thread's messages (indexing lags the writes)
ZepResponses(thread) ==
    {[kind |-> "throw", context |-> <<>>]}
        \cup {[kind |-> "ok", context |-> SubSeq(thread, 1, n)] : n \in 0..Len(thread)}

MemoryCitation == [label |-> "Conversation History", locator |-> "zep:memory"]

MemoryTool_run_mut(b) ==
    IF b.kind = "throw"
    THEN Returned(Record("ERROR", "MEMORY", <<>>, 0), TRUE, FALSE)
    ELSE Returned(Record("OK", "MEMORY", <<MemoryCitation>>, 98), FALSE, b.context = <<>>)

MemoryTool_run(b) ==
    IF b.kind = "throw"
    THEN Returned(Record("ERROR", "MEMORY", <<>>, 0), TRUE, FALSE)
    ELSE IF b.context # <<>>
         THEN Returned(Record("OK", "MEMORY", <<MemoryCitation>>, 98), FALSE, FALSE)
         ELSE Returned(Record("INSUFFICIENT_CONTEXT", "MEMORY", <<>>, 0), FALSE, TRUE)

(***************************************************************************)
(* FirecrawlSearchTool (src/src/tools/web_search_tool.py)                  *)
(***************************************************************************)
\* app.search throws, returns a response without a list under "web", or
\* returns a list of results; an item is TRUE when it can be read and FALSE
\* when reading it raises inside the per-result loop
WebResponses ==
    {[kind |-> "throw", items |-> <<>>], [kind |-> "no_list", items |-> <<>>]}
        \cup {[kind |-> "ok", items |-> it] :
                it \in UNION {[1..k -> BOOLEAN] : k \in 0..MaxResults}}

WebCitation == [label |-> "title", locator |-> "url"]

RECURSIVE ReadableItems(_)
ReadableItems(items) ==
    IF items = <<>> THEN <<>>
    ELSE (IF Head(items) THEN <<WebCitation>> ELSE <<>>) \o ReadableItems(Tail(items))

FirecrawlSearchTool_run_mut(api_key, b) ==
    IF ~api_key
    THEN Returned(Record("ERROR", "WEB", <<>>, 0), FALSE, FALSE)
    ELSE IF b.kind = "throw"
    THEN Returned(Record("ERROR", "WEB", <<>>, 0), TRUE, FALSE)
    ELSE IF b.kind = "no_list" \/ b.items = <<>>
    THEN Returned(Record("INSUFFICIENT_CONTEXT", "WEB", <<>>, 0), FALSE, TRUE)
    ELSE Returned(Record("OK", "WEB", ReadableItems(b.items), 97), FALSE, FALSE)

FirecrawlSearchTool_run(api_key, b) ==
    IF ~api_key
    THEN Returned(Record("ERROR", "WEB", <<>>, 0), FALSE, FALSE)
    ELSE IF b.kind = "throw"
    THEN Returned(Record("ERROR", "WEB", <<>>, 0), TRUE, FALSE)
    ELSE IF b.kind = "no_list" \/ b.items = <<>>
    THEN Returned(Record("INSUFFICIENT_CONTEXT", "WEB", <<>>, 0), FALSE, TRUE)
    ELSE LET citations == ReadableItems(b.items)
         IN  IF citations # <<>>
             THEN Returned(Record("OK", "WEB", citations, 97), FALSE, FALSE)
             ELSE Returned(Record("INSUFFICIENT_CONTEXT", "WEB", <<>>, 0), FALSE, FALSE)

(***************************************************************************)
(* ArxivTool (src/src/tools/arxiv_tool.py)                                 *)
(***************************************************************************)
\* requests.get / raise_for_status throws, or the body does not parse
\* (_parse_arxiv_response raises), or it holds 0..MaxResults entries
ArxivResponses ==
    {[kind |-> "throw", papers |-> 0], [kind |-> "bad_xml", papers |-> 0]}
        \cup {[kind |-> "ok", papers |-> n] : n \in 0..MaxResults}

ArxivCitation == [label |-> "title (published)", locator |-> "url"]

ArxivTool_run(b) ==
    IF b.kind = "throw"
    THEN Returned(Record("ERROR", "ARXIV", <<>>, 0), TRUE, FALSE)
    ELSE IF b.kind = "bad_xml"
    THEN Returned(Record("ERROR", "ARXIV", <<>>, 0), FALSE, FALSE)
    ELSE IF b.papers = 0
    THEN Returned(Record("INSUFFICIENT_CONTEXT", "ARXIV", <<>>, 0), FALSE, TRUE)
    ELSE Returned(Record("OK", "ARXIV", [i \in 1..b.papers |-> ArxivCitation], 92),
                  FALSE, FALSE)

(***************************************************************************)
(* MilvusVectorDB and RAGPipeline (src/src/rag)                            *)
(***************************************************************************)
Docs == {"d1", "d2"}
PathLists == {<<>>, <<"d1">>, <<"d1", "d2">>}  \* <<>> is also document_paths=None
TopKs == {0, 1, 3}  \* RAGInput takes any int for top_k
Scores == {-20, 91}

Min(S) == CHOOSE x \in S : \A y \in S : x <= y

\* MilvusVectorDB.get_collection_count: any failure of get_collection_stats
\* is swallowed and reported as 0 rows
get_collection_count(idx, stats) ==
    IF stats = "throw" THEN 0 ELSE Len(idx)

\* what the parser and the embedder do with one document:
\*   throw      a backend call (parse, embed or insert) throws
\*   no_chunks  get_result returns None, the parse result has no usable
\*              chunk, or the embedder returns the wrong number of vectors
\*   ok         n chunks are parsed, embedded and inserted
DocOutcomes ==
    {[kind |-> k, n |-> 0] : k \in {"throw", "no_chunks"}}
        \cup {[kind |-> "ok", n |-> n] : n \in 1..MaxChunksPerDoc}

insert_mut(idx, path, n) ==
    idx \o [j \in 1..n |-> [source_file |-> path, chunk_index |-> j]]

\* rows MilvusVectorDB.insert adds for one document: chunk_index is the
\* chunk's 0-based position within the document
insert(idx, path, n) ==
    idx \o [j \in 1..n |-> [source_file |-> path, chunk_index |-> j - 1]]

\* RAGPipeline.process_documents from the i-th path on: documents are
\* parsed, embedded and inserted one after the other; the first failure
\* raises and leaves the rows of the earlier documents in the collection
RECURSIVE process_from(_, _, _, _)
process_from(idx, paths, i, doc) ==
    IF i > Len(paths)
    THEN [raised |-> FALSE, threw |-> FALSE, index |-> idx]
    ELSE LET o == doc[paths[i]]
         IN  IF o.kind = "throw"
             THEN [raised |-> TRUE, threw |-> TRUE, index |-> idx]
             ELSE IF o.kind # "ok"
             THEN [raised |-> TRUE, threw |-> FALSE, index |-> idx]
             ELSE process_from(insert(idx, paths[i], o.n), paths, i + 1, doc)

process_documents(idx, paths, b) ==
    IF b.upload = "throw"
    THEN [raised |-> TRUE, threw |-> TRUE, index |-> idx]
    ELSE process_from(idx, paths, 1, b.doc)

\* RAGTool._load_documents; ingest tells what became of process_documents:
\* "refused" (not called), "failed" (it raised) or "done"
_load_documents(idx, paths, b) ==
    IF paths = <<>>
    THEN [rec |-> Record("ERROR", "RAG", <<>>, 0), threw |-> FALSE, index |-> idx,
          ingest |-> "refused"]
    ELSE IF b.missing
    THEN [rec |-> Record("ERROR", "RAG", <<>>, 0), threw |-> FALSE, index |-> idx,
          ingest |-> "refused"]
    ELSE LET p == process_documents(idx, paths, b)
         IN  IF p.raised
             THEN [rec |-> Record("ERROR", "RAG", <<>>, 0),
                   threw |-> p.threw, index |-> p.index, ingest |-> "failed"]
             ELSE [rec |-> Record("OK", "RAG",
                                  [i \in 1..Len(paths) |->
                                      [label |-> "Processed", locator |-> paths[i]]], 96),
                   threw |-> FALSE, index |-> p.index, ingest |-> "done"]

\* MilvusVectorDB.search behind RAGPipeline.retrieve_context: embedding the
\* query or the search throws, or at most `limit` rows come back, each row
\* once, by descending score
HitLists(idx, limit) ==
    LET hit == [row : 1..Len(idx), score : Scores]
        most == Min({limit, MaxHits, Len(idx)})
    IN  {h \in UNION {[1..k -> hit] : k \in 0..most} :
            /\ \A i, j \in 1..Len(h) : i # j => h[i].row # h[j].row
            /\ \A i \in 1..Len(h) - 1 : h[i].score >= h[i + 1].score}

SearchResponses(idx, limit) ==
    {[kind |-> "throw", hits |-> <<>>]}
        \cup {[kind |-> "ok", hits |-> h] : h \in HitLists(idx, limit)}

\* the hit dicts MilvusVectorDB.search builds
search(idx, hits) ==
    [i \in 1..Len(hits) |->
        [score |-> hits[i].score,
         chunk_index |-> idx[hits[i].row].chunk_index,
         source_file |-> idx[hits[i].row].source_file]]

\* the backends' behaviour during one _load_documents: a file is missing,
\* the upload throws, or every document has its outcome
AllFail == [d \in Docs |-> [kind |-> "throw", n |-> 0]]

LoadBackends ==
    {[missing |-> TRUE, upload |-> "ok", doc |-> AllFail],
     [missing |-> FALSE, upload |-> "throw", doc |-> AllFail]}
        \cup {[missing |-> FALSE, upload |-> "ok", doc |-> doc] :
                doc \in [Docs -> DocOutcomes]}

\* the backends' behaviour during one RAGTool._run, except the search:
\* the two get_collection_stats calls and the load
RAGBackends ==
    {[stats1 |-> s1, stats2 |-> s2, missing |-> l.missing,
      upload |-> l.upload, doc |-> l.doc] :
        s1 \in {"ok", "throw"}, s2 \in {"ok", "throw"}, l \in LoadBackends}

(***************************************************************************)
(* RAGTool._run (src/src/tools/rag_tool.py): the set of its outcomes, one  *)
(* for every response of the search                                        *)
(***************************************************************************)
\* hits: the rows and scores the search returned to this call
RAGOutcome(call, idx) == [call |-> call, index |-> idx, hits |-> <<>>]

RAGInsufficient == Record("INSUFFICIENT_CONTEXT", "RAG", <<>>, 0)

RAGRetrieve(idx, top_k, threw) ==
    {IF s.kind = "throw"
     THEN RAGOutcome(Returned(Record("ERROR", "RAG", <<>>, 0), TRUE, FALSE), idx)
     ELSE IF s.hits = <<>>
     THEN RAGOutcome(Returned(RAGInsufficient, threw, TRUE), idx)
     ELSE LET context_results == search(idx, s.hits)
              citations == [i \in 1..Len(context_results) |->
                              [label |-> "file - Page, Chunk",
                               locator |-> "page_chunk",
                               chunk_index |-> context_results[i].chunk_index,
                               source_file |-> context_results[i].source_file,
                               score |-> context_results[i].score]]
              confidence == Max({context_results[i].score :
                                    i \in 1..Len(context_results)})
          IN  [RAGOutcome(Returned(Record("OK", "RAG", citations, confidence),
                                   threw, FALSE), idx) EXCEPT !.hits = s.hits]
     : s \in SearchResponses(idx, top_k)}

\* what a call did besides returning: ingest is "none" when
\* _load_documents was not called, searched tells whether retrieve_context ran
Traced(outcome, ingest, searched) ==
    [ingest |-> ingest, searched |-> searched] @@ outcome

RAGTool_run_mut(idx, top_k, document_paths, b) ==
    LET doc_count == get_collection_count(idx, b.stats1)
        threw1 == b.stats1 = "throw"
    IN  IF doc_count = 0
        THEN IF document_paths = <<>>
             THEN {Traced(RAGOutcome(Returned(RAGInsufficient, threw1, ~threw1), idx),
                          "none", FALSE)}
             ELSE LET load_result == _load_documents(idx, document_paths, b)
                      threw2 == threw1 \/ load_result.threw
                  IN  IF load_result.rec.status = "ERROR"
                      THEN {Traced(RAGOutcome(Returned(load_result.rec, threw2, FALSE),
                                              load_result.index),
                                   load_result.ingest, FALSE)}
                      ELSE IF get_collection_count(load_result.index, b.stats2) = 0
                      THEN {Traced(RAGOutcome(Returned(RAGInsufficient,
                                                       threw2 \/ b.stats2 = "throw",
                                                       FALSE),
                                              load_result.index),
                                   load_result.ingest, FALSE)}
                      ELSE {Traced(o, load_result.ingest, TRUE) :
                               o \in RAGRetrieve(idx, top_k,
                                                 threw2 \/ b.stats2 = "throw")}
        ELSE {Traced(o, "none", TRUE) : o \in RAGRetrieve(idx, top_k, threw1)}

RAGTool_run(idx, top_k, document_paths, b) ==
    LET doc_count == get_collection_count(idx, b.stats1)
        threw1 == b.stats1 = "throw"
    IN  IF doc_count = 0
        THEN IF document_paths = <<>>
             THEN {Traced(RAGOutcome(Returned(RAGInsufficient, threw1, ~threw1), idx),
                          "none", FALSE)}
             ELSE LET load_result == _load_documents(idx, document_paths, b)
                      threw2 == threw1 \/ load_result.threw
                  IN  IF load_result.rec.status = "ERROR"
                      THEN {Traced(RAGOutcome(Returned(load_result.rec, threw2, FALSE),
                                              load_result.index),
                                   load_result.ingest, FALSE)}
                      ELSE IF get_collection_count(load_result.index, b.stats2) = 0
                      THEN {Traced(RAGOutcome(Returned(RAGInsufficient,
                                                       threw2 \/ b.stats2 = "throw",
                                                       FALSE),
                                              load_result.index),
                                   load_result.ingest, FALSE)}
                      ELSE {Traced(o, load_result.ingest, TRUE) :
                               o \in RAGRetrieve(load_result.index, top_k,
                                                 threw2 \/ b.stats2 = "throw")}
        ELSE {Traced(o, "none", TRUE) : o \in RAGRetrieve(idx, top_k, threw1)}

(***************************************************************************)
(* Direct calls of the four adapters                                       *)
(***************************************************************************)
NoCall == [adapter |-> "none"] @@ Raised(FALSE)

RAGToolOutcomes(idx) ==
    UNION {RAGTool_run(idx, k, p, b) : k \in TopKs, p \in PathLists, b \in RAGBackends}

MemoryToolOutcomes(thread) == {MemoryTool_run(b) : b \in ZepResponses(thread)}

WebToolOutcomes ==
    {FirecrawlSearchTool_run(api_key, b) : api_key \in BOOLEAN, b \in WebResponses}

ArxivToolOutcomes == {ArxivTool_run(b) : b \in ArxivResponses}

CallRAGTool ==
    /\ lastCall = NoCall
    /\ \E k \in TopKs, p \in PathLists, b \in RAGBackends :
        \E out \in RAGTool_run(index, k, p, b) :
          /\ Len(out.index) <= MaxRows
          /\ index' = out.index
          /\ lastCall' = [adapter |-> "RAG", before |-> index, document_paths |-> p,
                          ingest |-> out.ingest, searched |-> out.searched,
                          added |-> Len(out.index) - Len(index),
                          hits |-> out.hits, top_k |-> k] @@ out.call
    /\ UNCHANGED <<zep, pc, req, state, flow_state, result, log, sum, mem, gen>>

CallMemoryTool ==
    /\ lastCall = NoCall
    /\ \E call \in MemoryToolOutcomes(zep[FlowThread]) :
          lastCall' = [adapter |-> "MEMORY"] @@ call
    /\ UNCHANGED <<index, zep, pc, req, state, flow_state, result, log, sum, mem, gen>>

CallWebTool ==
    /\ lastCall = NoCall
    /\ \E call \in WebToolOutcomes : lastCall' = [adapter |-> "WEB"] @@ call
    /\ UNCHANGED <<index, zep, pc, req, state, flow_state, result, log, sum, mem, gen>>

CallArxivTool ==
    /\ lastCall = NoCall
    /\ \E call \in ArxivToolOutcomes : lastCall' = [adapter |-> "ARXIV"] @@ call
    /\ UNCHANGED <<index, zep, pc, req, state, flow_state, result, log, sum, mem, gen>>

\* the agent takes the record its tool returned; the adapter keeps nothing
\* of the call
TakeRecord ==
    /\ lastCall # NoCall
    /\ lastCall' = NoCall
    /\ UNCHANGED <<index, zep, pc, req, state, flow_state, result, log, sum, mem, gen>>

(***************************************************************************)
(* ZepMemoryLayer writes                                                   *)
(***************************************************************************)
Message(role, text, r) == [role |-> role, text |-> text, req |-> r]

save_user_message_mut(store, thread_id, text, r) ==
    [store EXCEPT ![thread_id] = Append(@, Message("assistant", text, r))]

save_user_message(store, thread_id, text, r) ==
    [store EXCEPT ![thread_id] = Append(@, Message("user", text, r))]

save_assistant_message_mut(store, thread_id, text, r) ==
    [store EXCEPT ![thread_id] = @ \o <<Message("assistant", text, r),
                                        Message("assistant", text, r)>>]

save_assistant_message(store, thread_id, text, r) ==
    [store EXCEPT ![thread_id] = Append(@, Message("assistant", text, r))]

(***************************************************************************)
(* A ZepMemoryLayer object used directly (src/src/memory/memory.py).  The  *)
(* messages it saves carry the number of the session that wrote them.      *)
(* The backend keeps its contract: a context block is built from the       *)
(* messages of the thread it is asked for, and once the settling delay     *)
(* has elapsed after a write it reflects every message of the thread.      *)
(***************************************************************************)
NoRead == [done |-> FALSE, raised |-> FALSE, context |-> <<>>, settled |-> FALSE]

\* thread.get_user_context after the settling delay
SettledResponses(thread) ==
    {[kind |-> "throw", context |-> <<>>], [kind |-> "ok", context |-> thread]}

ZepMemoryLayer_init_mut(store, thread_id) == store

\* ZepMemoryLayer.__init__: thread.delete, then thread.create
ZepMemoryLayer_init(store, thread_id) == [store EXCEPT ![thread_id] = <<>>]

get_context_block_mut(memory) == <<>>

\* ZepMemoryLayer.get_context_block: memory.context if it is there, else ""
get_context_block(memory) ==
    IF memory.context # <<>> THEN memory.context ELSE <<>>

\* ZepMemoryLayer(user_id, thread_id): a call of user.get / user.add,
\* thread.delete or thread.create may throw (thread.delete is not guarded,
\* whether or not the thread exists), and then no object is built
NewSession ==
    /\ mem.epoch < MaxSessions
    /\ \E t \in ThreadIds, backend \in {"ok", "throw"} :
          IF backend = "throw"
          THEN /\ mem' = [mem EXCEPT !.constructed = FALSE, !.read = NoRead]
               /\ UNCHANGED zep
          ELSE /\ zep' = ZepMemoryLayer_init(zep, t)
               /\ mem' = [thread |-> t, constructed |-> TRUE, epoch |-> mem.epoch + 1,
                          had |-> zep[t] # <<>>, settled |-> TRUE, read |-> NoRead]
    /\ UNCHANGED <<index, lastCall, pc, req, state, flow_state, result, log, sum, gen>>

\* save_user_message / save_assistant_message on the object
SaveTurn ==
    /\ mem.constructed
    /\ Len(zep[mem.thread]) < MaxMessages
    /\ \E role \in {"user", "assistant"} :
          zep' = IF role = "user"
                 THEN save_user_message(zep, mem.thread, <<"a">>, mem.epoch)
                 ELSE save_assistant_message(zep, mem.thread, <<"a">>, mem.epoch)
    /\ mem' = [mem EXCEPT !.settled = FALSE, !.read = NoRead]
    /\ UNCHANGED <<index, lastCall, pc, req, state, flow_state, result, log, sum, gen>>

\* ZepMemoryLayer.wait_for_indexing: sleeps for the settling delay
wait_for_indexing ==
    /\ mem.constructed
    /\ ~mem.settled
    /\ mem' = [mem EXCEPT !.settled = TRUE]
    /\ UNCHANGED <<index, zep, lastCall, pc, req, state, flow_state, result, log, sum, gen>>

\* a call of get_context_block on the object; it raises when the backend does
ReadContext ==
    /\ mem.constructed
    /\ \E memory \in (IF mem.settled THEN SettledResponses(zep[mem.thread])
                                    ELSE ZepResponses(zep[mem.thread])) :
          mem' = [mem EXCEPT !.read =
                     [done |-> TRUE, raised |-> memory.kind = "throw",
                      context |-> IF memory.kind = "throw" THEN <<>>
                                  ELSE get_context_block(memory),
                      settled |-> mem.settled]]
    /\ UNCHANGED <<index, zep, lastCall, pc, req, state, flow_state, result, log, sum, gen>>

(***************************************************************************)
(* ResearchAssistantFlow (src/src/workflows/flow.py)                       *)
(***************************************************************************)
Queries == {<<"a", "?">>}
Responses == {<<"a", ".">>}

BundleKeys == {"rag_result", "memory_result", "web_result", "tool_result"}

\* the names an evaluator reply uses for a source
EvaluatorNames == {"rag_result", "RAG"}

\* A task output's raw text: JSON text (value is what json.loads makes of
\* it) or text that is not JSON.  A JSON text that is not an object parses
\* to [json_scalar |-> ...].
Json(value) == [kind |-> "json", value |-> value]
Text(chars) == [kind |-> "text", value |-> chars]

_parse_agent_result(raw_result) ==
    IF raw_result.kind = "json"
    THEN raw_result.value
    ELSE [status |-> "OK", source_used |-> "UNKNOWN", answer |-> raw_result.value,
          citations |-> <<>>, confidence |-> 50]

\* what an agent can hand back after its tool call: the tool's JSON record
\* or prose of its own
AgentOutputs(call) ==
    (IF call.raised THEN {} ELSE {Json(call.rec)})
        \cup {Text(<<"a">>)}

\* what a tool call hands to its agent
Seen(call) == [raised |-> call.raised, rec |-> call.rec]

StageAfter_mut(stage) ==
    CASE stage = "created" -> "gathering"
      [] stage = "gathering" -> "synthesizing"
      [] stage = "evaluating" -> "synthesizing"
      [] stage = "synthesizing" -> "completed"

\* the @start / @listen chain: process_query, then
\* gather_context_from_all_sources, then evaluate_context_relevance, then
\* synthesize_final_response, whose return ends the flow.  Each step hands
\* the dict it returns to the next; a step that raises returns none, and
\* the exception ends kickoff.
StageAfter(stage) ==
    CASE stage = "created" -> "gathering"
      [] stage = "gathering" -> "evaluating"
      [] stage = "evaluating" -> "synthesizing"
      [] stage = "synthesizing" -> "completed"

ErrorResult == [error |-> "Error processing query"]
NoResult == [none |-> TRUE]
Event(name) == [ev |-> name]

\* StreamlitResearchAssistant.query: flow.kickoff(inputs=...)
Query ==
    /\ pc = "idle"
    /\ req < MaxRequests
    /\ \E q \in Queries :
          state' = [query |-> q, user_id |-> "streamlit_user", thread_id |-> RequestThread]
    /\ pc' = "created"
    /\ req' = req + 1
    /\ flow_state' = <<>>
    /\ result' = NoResult
    /\ log' = <<>>
    /\ UNCHANGED <<index, zep, lastCall, sum, mem, gen>>

process_query_waits ==
    /\ pc = "created"
    /\ LET summarized_query == _summarize_for_memory(state.query, QueryMemoryLimit)
       IN  \E save \in {"ok", "throw"} :
              IF save = "throw"
              THEN /\ pc' = "failed"
                   /\ result' = ErrorResult
                   /\ UNCHANGED <<zep, flow_state, log>>
              ELSE /\ zep' = save_user_message(zep, FlowThread, summarized_query, req)
                   /\ log' = log \o <<Event("user_write"), Event("wait_for_indexing")>>
                   /\ flow_state' = [query |-> state.query, status |-> "processing"]
                   /\ pc' = StageAfter(pc)
                   /\ UNCHANGED result
    /\ UNCHANGED <<index, lastCall, req, state, sum, mem, gen>>

\* @start process_query
process_query ==
    /\ pc = "created"
    /\ LET summarized_query == _summarize_for_memory(state.query, QueryMemoryLimit)
       IN  \E save \in {"ok", "throw"} :
              IF save = "throw"
              THEN /\ pc' = "failed"
                   /\ result' = ErrorResult
                   /\ UNCHANGED <<zep, flow_state, log>>
              ELSE /\ zep' = save_user_message(zep, FlowThread, summarized_query, req)
                   /\ log' = Append(log, Event("user_write"))
                   /\ flow_state' = [query |-> state.query, status |-> "processing"]
                   /\ pc' = StageAfter(pc)
                   /\ UNCHANGED result
    /\ UNCHANGED <<index, lastCall, req, state, sum, mem, gen>>

gather_mut(fs, raws) ==
    [context_sources |->
        [rag_result |-> _parse_agent_result(raws[1]),
         memory_result |-> _parse_agent_result(raws[2]),
         web_result |-> _parse_agent_result(raws[3])],
     raw_results |-> raws] @@ fs

gather_swapped(fs, raws) ==
    [context_sources |->
        [rag_result |-> _parse_agent_result(raws[2]),
         memory_result |-> _parse_agent_result(raws[1]),
         web_result |-> _parse_agent_result(raws[3]),
         tool_result |-> _parse_agent_result(raws[4])],
     raw_results |-> raws] @@ fs

\* the dict gather_context_from_all_sources returns
gather(fs, raws) ==
    [context_sources |->
        [rag_result |-> _parse_agent_result(raws[1]),
         memory_result |-> _parse_agent_result(raws[2]),
         web_result |-> _parse_agent_result(raws[3]),
         tool_result |-> _parse_agent_result(raws[4])],
     raw_results |-> raws] @@ fs

\* @listen(process_query) gather_context_from_all_sources: the crew runs
\* the four tasks in order, each agent calling its tool
gather_context_from_all_sources ==
    /\ pc = "gathering"
    /\ \/ /\ pc' = "failed"
          /\ result' = ErrorResult
          /\ flow_state' = <<>>
          /\ UNCHANGED <<index, log>>
       \/ \E r \in {[call |-> Seen(o.call), index |-> o.index] :
                        o \in RAGToolOutcomes(index)},
             m \in {Seen(c) : c \in MemoryToolOutcomes(zep[FlowThread])},
             w \in {Seen(c) : c \in WebToolOutcomes},
             a \in {Seen(c) : c \in ArxivToolOutcomes} :
             \E r1 \in AgentOutputs(r.call), r2 \in AgentOutputs(m),
                r3 \in AgentOutputs(w), r4 \in AgentOutputs(a) :
                /\ Len(r.index) <= MaxRows
                /\ index' = r.index
                /\ log' = log \o <<Event("rag_tool"), Event("memory_tool"),
                                  Event("web_tool"), Event("arxiv_tool")>>
                /\ flow_state' = gather(flow_state, <<r1, r2, r3, r4>>)
                /\ pc' = StageAfter(pc)
                /\ UNCHANGED result
    /\ UNCHANGED <<zep, lastCall, req, state, sum, mem, gen>>

\* the bundle record a name in an evaluator reply stands for
SourceKey(name) == IF name = "RAG" THEN "rag_result" ELSE name

\* What the evaluator crew can return for a bundle.  With a validated
\* ContextEvaluationResult the model chose relevant_sources and the keys of
\* filtered_context freely (pydantic checks types only); relevant_sources
\* is a list, kept here as the set of its elements.  Without one, the raw
\* text is prose, a JSON object that misses required fields, or a JSON text
\* that is not an object.
EvaluatorReplies(bundle) ==
    {LET output == [relevant_sources |-> R,
                    filtered_context |-> [k \in K |-> bundle[SourceKey(k)]],
                    relevance_scores |-> [k \in EvaluatorNames |->
                                             IF k \in R THEN 90 ELSE 10],
                    reasoning |-> "text"]
     IN  [pydantic |-> TRUE, output |-> output, raw |-> Json(output)]
     : R \in SUBSET EvaluatorNames, K \in SUBSET EvaluatorNames}
    \cup
    {[pydantic |-> FALSE, output |-> <<>>, raw |-> raw]
     : raw \in {Text(<<"a">>), Json([reasoning |-> "text"]), Json([json_scalar |-> 42])}}

evaluate_mut(fs, reply) ==
    IF reply.pydantic
    THEN [filtered_context |-> reply.output.filtered_context,
          evaluation_result |-> reply.output,
          evaluation_raw |-> reply.raw] @@ fs
    ELSE [filtered_context |-> _parse_agent_result(reply.raw),
          evaluation_result |-> [raw |-> reply.raw],
          evaluation_raw |-> reply.raw] @@ fs

evaluate_drop(fs, reply) ==
    IF reply.pydantic
    THEN [filtered_context |-> reply.output.filtered_context,
          evaluation_result |-> reply.output,
          evaluation_raw |-> reply.raw,
          query |-> fs.query,
          status |-> fs.status]
    ELSE [filtered_context |-> _parse_agent_result(reply.raw),
          evaluation_result |-> [raw_fallback |-> reply.raw],
          evaluation_raw |-> reply.raw,
          query |-> fs.query,
          status |-> fs.status]

evaluate_bundle(fs, reply) ==
    IF reply.pydantic
    THEN [filtered_context |-> reply.output.filtered_context,
          evaluation_result |-> reply.output,
          evaluation_raw |-> reply.raw] @@ fs
    ELSE [filtered_context |-> fs.context_sources,
          evaluation_result |-> [raw_fallback |-> reply.raw],
          evaluation_raw |-> reply.raw] @@ fs

\* the dict evaluate_context_relevance returns
evaluate(fs, reply) ==
    IF reply.pydantic
    THEN [filtered_context |-> reply.output.filtered_context,
          evaluation_result |-> reply.output,
          evaluation_raw |-> reply.raw] @@ fs
    ELSE [filtered_context |-> _parse_agent_result(reply.raw),
          evaluation_result |-> [raw_fallback |-> reply.raw],
          evaluation_raw |-> reply.raw] @@ fs

\* @listen(gather_context_from_all_sources) evaluate_context_relevance
evaluate_context_relevance ==
    /\ pc = "evaluating"
    /\ \/ /\ pc' = "failed"
          /\ result' = ErrorResult
          /\ flow_state' = <<>>
          /\ UNCHANGED log
       \/ \E reply \in EvaluatorReplies(flow_state.context_sources) :
             /\ flow_state' = evaluate(flow_state, reply)
             /\ log' = Append(log, [ev |-> "evaluator", pydantic |-> reply.pydantic])
             /\ pc' = StageAfter(pc)
             /\ UNCHANGED result
    /\ UNCHANGED <<index, zep, lastCall, req, state, sum, mem, gen>>

\* what create_synthesis_task formats into the synthesizer's prompt
create_synthesis_task(query, filtered_context) ==
    [ev |-> "synthesizer", query |-> query, filtered_context |-> filtered_context]

synthesize_mut(fs, final_response) ==
    [final_response |-> final_response,
     synthesis_raw |-> final_response,
     status |-> "completed"]

\* the dict synthesize_final_response returns
synthesize(fs, final_response) ==
    [final_response |-> final_response,
     synthesis_raw |-> final_response,
     status |-> "completed"] @@ fs

\* @listen(evaluate_context_relevance) synthesize_final_response
synthesize_final_response ==
    /\ pc = "synthesizing"
    /\ LET synthesis_task == create_synthesis_task(flow_state.query,
                                                   flow_state.filtered_context)
       IN  \/ /\ log' = Append(log, synthesis_task)
              /\ pc' = "failed"
              /\ result' = ErrorResult
              /\ flow_state' = <<>>
              /\ UNCHANGED zep
           \/ \E final_response \in Responses, save \in {"ok", "throw"} :
                 LET summarized_response ==
                         _summarize_for_memory(final_response, ResponseMemoryLimit)
                 IN  IF save = "throw"
                     THEN /\ log' = log \o <<synthesis_task, Event("final_answer")>>
                          /\ pc' = "failed"
                          /\ result' = ErrorResult
                          /\ flow_state' = <<>>
                          /\ UNCHANGED zep
                     ELSE /\ log' = log \o <<synthesis_task, Event("final_answer"),
                                             Event("assistant_write")>>
                          /\ zep' = save_assistant_message(zep, FlowThread,
                                                           summarized_response, req)
                          /\ flow_state' = synthesize(flow_state, final_response)
                          /\ pc' = StageAfter(pc)
                          /\ result' = flow_state'
    /\ UNCHANGED <<index, lastCall, req, state, sum, mem, gen>>

\* StreamlitResearchAssistant.query returns to the page, which keeps what it
\* shows of the result; the request's state is dropped
Return ==
    /\ pc \in {"completed", "failed"}
    /\ pc' = "idle"
    /\ flow_state' = <<>>
    /\ result' = NoResult
    /\ log' = <<>>
    /\ UNCHANGED <<index, zep, lastCall, req, state, sum, mem, gen>>

\* the files handed to the upload form; the other document reaches the
\* collection through RAGTool's document_paths
UploadDocs == {"d1"}

\* ResearchAssistantFlow.process_documents, called by the upload form with
\* one path; rows inserted before a failure stay in the collection
ProcessDocuments ==
    /\ pc = "idle"
    /\ \E d \in UploadDocs, b \in LoadBackends :
          LET p == process_documents(index, <<d>>, b)
          IN  /\ Len(p.index) <= MaxRows
              /\ index' = p.index
    /\ UNCHANGED <<zep, lastCall, pc, req, state, flow_state, result, log, sum, mem, gen>>

\* direct ZepMemoryLayer.save_user_message / save_assistant_message
SaveMessage ==
    /\ Len(zep[FlowThread]) < MaxMessages
    /\ \E role \in {"user", "assistant"} :
          zep' = IF role = "user"
                 THEN save_user_message(zep, FlowThread, <<"a">>, 0)
                 ELSE save_assistant_message(zep, FlowThread, <<"a">>, 0)
    /\ UNCHANGED <<index, lastCall, pc, req, state, flow_state, result, log, sum, mem, gen>>

\* a direct call of _summarize_for_memory
Summarize ==
    /\ ~sum.done
    /\ sum' = [sum EXCEPT !.out = _summarize_for_memory(sum.text, sum.max_length),
                          !.done = TRUE]
    /\ UNCHANGED <<index, zep, lastCall, pc, req, state, flow_state, result, log, mem, gen>>

(***************************************************************************)
(* StructuredResponseGen.generate (src/src/generation/generation.py)       *)
(***************************************************************************)
\* RESPONSE_SCHEMA: "required", with additionalProperties false
RequiredFields ==
    {"status", "source_used", "answer", "citations", "confidence", "missing"}

\* the values a model can put under status and citations
StatusValues == {"OK", "INSUFFICIENT_CONTEXT", "MAYBE"}
CitationLists ==
    {<<>>, <<[label |-> "doc", locator |-> "p1"]>>, <<[locator |-> "p1"]>>}

\* what chat.completions.create can hand back as message.content: text
\* that is not JSON, a JSON text that is not an object, or a JSON object
\* with any of the required fields
GenFieldValue(f, status, citations) ==
    CASE f = "status" -> status
      [] f = "citations" -> citations
      [] f = "confidence" -> 50
      [] f = "missing" -> <<>>
      [] f = "source_used" -> "RAG"
      [] OTHER -> "text"

ModelResponses ==
    {Text(<<"a">>), Json([json_scalar |-> 42])}
        \cup {Json([f \in F |-> GenFieldValue(f, st, c)]) :
                F \in SUBSET RequiredFields, st \in StatusValues, c \in CitationLists}

\* RESPONSE_SCHEMA applied to a parsed JSON value
SatisfiesSchema(data) ==
    /\ DOMAIN data = RequiredFields
    /\ data.status \in {"OK", "INSUFFICIENT_CONTEXT"}
    /\ data.source_used \in {"MEMORY", "RAG", "WEB", "TOOL", "NONE"}
    /\ \A i \in 1..Len(data.citations) :
          DOMAIN data.citations[i] = {"label", "locator"}

\* generate: json.loads raises on text that is not JSON, the assignment
\* data["source_used"] raises on a value that is not an object, and any
\* object is returned with source_used set
generate(response, source_used) ==
    IF response.kind # "json"
    THEN [raised |-> TRUE, data |-> <<>>]
    ELSE IF "json_scalar" \in DOMAIN response.value
    THEN [raised |-> TRUE, data |-> <<>>]
    ELSE [raised |-> FALSE,
          data |-> [f \in DOMAIN response.value \cup {"source_used"} |->
                       IF f = "source_used" THEN source_used ELSE response.value[f]]]

NoGen == [response |-> Text(<<>>), done |-> TRUE, raised |-> FALSE, data |-> <<>>]

\* a direct call of StructuredResponseGen.generate
Generate ==
    /\ ~gen.done
    /\ LET out == generate(gen.response, "RAG")
       IN  gen' = [gen EXCEPT !.done = TRUE, !.raised = out.raised, !.data = out.data]
    /\ UNCHANGED <<index, zep, lastCall, pc, req, state, flow_state, result, log, sum, mem>>

(***************************************************************************)
(* Specifications                                                          *)
(***************************************************************************)
NoSum == [text |-> <<>>, max_length |-> 1, out |-> <<>>, done |-> TRUE]

\* the state after ResearchAssistantFlow.__init__: _ensure_collection has
\* dropped and recreated the collection, ZepMemoryLayer has deleted and
\* recreated its thread
Constructed ==
    /\ index = <<>>
    /\ zep = [t \in ThreadIds |-> <<>>]
    /\ lastCall = NoCall
    /\ pc = "idle"
    /\ req = 0
    /\ state = [query |-> <<>>, user_id |-> "default_user", thread_id |-> DefaultThread]
    /\ flow_state = <<>>
    /\ result = NoResult
    /\ log = <<>>
    /\ mem = [thread |-> FlowThread, constructed |-> TRUE, epoch |-> 1,
              had |-> FALSE, settled |-> TRUE, read |-> NoRead]

Init == Constructed /\ sum = NoSum /\ gen = NoGen

Next ==
    \/ Query
    \/ process_query
    \/ gather_context_from_all_sources
    \/ evaluate_context_relevance
    \/ synthesize_final_response
    \/ Return
    \/ ProcessDocuments

Spec == Init /\ [][Next]_vars

\* the adapters and the memory layer called directly
ToolNext ==
    \/ CallRAGTool
    \/ CallMemoryTool
    \/ CallWebTool
    \/ CallArxivTool
    \/ TakeRecord
    \/ ProcessDocuments
    \/ SaveMessage

ToolSpec == Init /\ [][ToolNext]_vars

\* a ZepMemoryLayer built and used directly, session after session
MemNext ==
    \/ NewSession
    \/ SaveTurn
    \/ wait_for_indexing
    \/ ReadContext

MemSpec == Init /\ [][MemNext]_vars

\* generate on every response of the model
GenInit ==
    /\ Constructed
    /\ sum = NoSum
    /\ gen \in [response : ModelResponses, done : {FALSE}, raised : {FALSE},
                data : {<<>>}]

GenNext == Generate

GenSpec == GenInit /\ [][GenNext]_vars

\* _summarize_for_memory on every text and budget within the bounds
SumInit ==
    /\ Constructed
    /\ sum \in [text : TextsUpTo(MaxTextLen), max_length : 1..MaxBudget,
                out : {<<>>}, done : {FALSE}]
    /\ gen = NoGen

SumNext == Summarize

SumSpec == SumInit /\ [][SumNext]_vars

(***************************************************************************)
(* Properties                                                              *)
(***************************************************************************)
Called == lastCall.adapter # "none"

IsOK(rec) == "status" \in DOMAIN rec /\ rec.status = "OK"

Events == {log[i].ev : i \in 1..Len(log)}
ToolEvents == {"rag_tool", "memory_tool", "web_tool", "arxiv_tool"}

\* C1: whenever a backend call made by an adapter throws, the adapter
\* returns a record with status ERROR and does not raise.
C1_BackendThrowGivesError ==
    (Called /\ lastCall.backendThrew)
        => (~lastCall.raised /\ lastCall.rec.status = "ERROR")

\* C2: whenever an adapter's backend calls succeed and the result set is
\* empty, the adapter returns a record with status INSUFFICIENT_CONTEXT.
C2_EmptyResultGivesInsufficient ==
    (Called /\ lastCall.emptyResult /\ ~lastCall.backendThrew)
        => (~lastCall.raised /\ lastCall.rec.status = "INSUFFICIENT_CONTEXT")

\* a search of a collection that holds rows came back without hits
C2_Witness ==
    /\ lastCall.adapter = "RAG"
    /\ index # <<>>
    /\ lastCall.emptyResult /\ ~lastCall.backendThrew
    /\ lastCall.rec.status = "INSUFFICIENT_CONTEXT"

\* C3: once the gathering stage has completed, context_sources has exactly
\* the keys rag_result, memory_result, web_result and tool_result.
C3_BundleHasFourKeys ==
    /\ pc \in {"evaluating", "synthesizing", "completed"}
          => "context_sources" \in DOMAIN flow_state
    /\ "context_sources" \in DOMAIN flow_state
          => DOMAIN flow_state.context_sources = BundleKeys

\* gathering completed with one adapter failed, one empty and one with hits
C3_Witness ==
    /\ pc = "evaluating"
    /\ flow_state.context_sources.web_result.status = "ERROR"
    /\ flow_state.context_sources.tool_result.status = "INSUFFICIENT_CONTEXT"
    /\ flow_state.context_sources.memory_result.status = "OK"
    /\ flow_state.context_sources.memory_result.source_used = "MEMORY"

\* C4: after the evaluating stage the keys of filtered_context are keys of
\* the bundle and are no more than the bundle's sources with status OK.
C4_FilteredWithinOKSources ==
    pc = "synthesizing" =>
        /\ DOMAIN flow_state.filtered_context \subseteq BundleKeys
        /\ Cardinality(DOMAIN flow_state.filtered_context)
              <= Cardinality({k \in BundleKeys : IsOK(flow_state.context_sources[k])})

\* C5: in every validated evaluation, relevant_sources are keys of the
\* bundle and the keys of filtered_context are exactly relevant_sources.
C5_FilteredKeysAreRelevantSources ==
    (pc = "synthesizing" /\ "relevant_sources" \in DOMAIN flow_state.evaluation_result) =>
        /\ flow_state.evaluation_result.relevant_sources \subseteq BundleKeys
        /\ DOMAIN flow_state.filtered_context
              = flow_state.evaluation_result.relevant_sources

\* C6: a request moves created -> gathering -> evaluating -> synthesizing
\* -> completed, one stage at a time and never back; the only other step
\* out of a stage is to failed; from completed or failed nothing of the
\* request runs again, and the next request starts at created.
StageSteps ==
    {<<"created", "gathering">>, <<"gathering", "evaluating">>,
     <<"evaluating", "synthesizing">>, <<"synthesizing", "completed">>}
        \cup {<<s, "failed">> : s \in {"created", "gathering", "evaluating", "synthesizing"}}

C6_StageOrder ==
    [][/\ (pc' # pc /\ req' = req) =>
              (<<pc, pc'>> \in StageSteps \/ (pc \in {"completed", "failed"} /\ pc' = "idle"))
       /\ req' # req => (pc = "idle" /\ pc' = "created" /\ req' = req + 1)
       /\ (pc' = pc /\ req' = req) => pc = "idle"]_vars

\* a second request has run through all four stages
C6_Witness ==
    /\ pc = "completed"
    /\ req = 2
    /\ {"user_write", "rag_tool", "evaluator", "synthesizer", "assistant_write"}
          \subseteq Events

\* C7: within a request the user turn is written before any adapter is
\* called, the assistant turn is written after the synthesizer's answer,
\* and the assistant turn is never written before the user turn.
C7_MemoryWriteOrder ==
    \A i \in 1..Len(log) :
        /\ log[i].ev \in ToolEvents
              => \E j \in 1..(i - 1) : log[j].ev = "user_write"
        /\ log[i].ev = "assistant_write"
              => /\ \E j \in 1..(i - 1) : log[j].ev = "final_answer"
                 /\ \E j \in 1..(i - 1) : log[j].ev = "user_write"
                 /\ \E k \in 1..Len(zep[FlowThread]) :
                       /\ zep[FlowThread][k] =
                             Message("user",
                                     _summarize_for_memory(state.query, QueryMemoryLimit),
                                     req)
                       /\ \E l \in (k + 1)..Len(zep[FlowThread]) :
                             zep[FlowThread][l].role = "assistant"
                                /\ zep[FlowThread][l].req = req

\* both turns of a request are in the thread
C7_Witness ==
    /\ pc = "completed"
    /\ "assistant_write" \in Events
    /\ Len(zep[FlowThread]) >= 2

\* C8: when the evaluator's reply is not a ContextEvaluationResult, the raw
\* text is stored under raw_fallback and the request is in, or has passed,
\* the synthesizing stage (a request that failed afterwards failed in the
\* synthesizing stage, with the synthesizer called).
C8_DegradedEvaluationProceeds ==
    \A i \in 1..Len(log) :
        (log[i].ev = "evaluator" /\ ~log[i].pydantic) =>
            \/ /\ pc \in {"synthesizing", "completed"}
               /\ DOMAIN flow_state.evaluation_result = {"raw_fallback"}
               /\ flow_state.evaluation_result.raw_fallback = flow_state.evaluation_raw
            \/ /\ pc = "failed"
               /\ "synthesizer" \in Events

\* a request with a degraded evaluation has completed
C8_Witness ==
    /\ pc = "completed"
    /\ \E i \in 1..Len(log) : log[i].ev = "evaluator" /\ ~log[i].pydantic
    /\ "raw_fallback" \in DOMAIN flow_state.evaluation_result

\* the sources an evaluation judged relevant
JudgedRelevant(evaluation) ==
    IF "relevant_sources" \in DOMAIN evaluation
    THEN {SourceKey(n) : n \in evaluation.relevant_sources}
    ELSE {}

\* C9: the synthesizer's input is the query and filtered_context, and holds
\* no record of a source the evaluator did not judge relevant.
C9_SynthesizerSeesOnlyRelevant ==
    \A i \in 1..Len(log) :
        (log[i].ev = "synthesizer" /\ pc = "completed") =>
            /\ log[i].query = flow_state.query
            /\ log[i].filtered_context = flow_state.filtered_context
            /\ \A k \in DOMAIN log[i].filtered_context :
                  k \in EvaluatorNames \cup BundleKeys =>
                      SourceKey(k) \in JudgedRelevant(flow_state.evaluation_result)

\* C10: a text longer than max_length comes back as a prefix of at most
\* max_length characters followed by the truncation marker (in either of
\* its forms, " [...]" or "... [...]"); a text of at most max_length
\* characters comes back unchanged.
C10_SummaryBounded ==
    sum.done =>
        IF Len(sum.text) <= sum.max_length
        THEN sum.out = sum.text
        ELSE \E k \in 0..sum.max_length, marker \in {SentenceMarker, EllipsisMarker} :
                /\ sum.out = SubSeq(sum.text, 1, k) \o marker
                /\ sum.out[Len(sum.out)] = Notice

\* a long text without sentence end or space was cut at max_length
C10_Witness ==
    /\ sum.done
    /\ Len(sum.text) > sum.max_length
    /\ sum.max_length >= 6
    /\ sum.out = SubSeq(sum.text, 1, sum.max_length) \o EllipsisMarker

\* C11: once a ZepMemoryLayer has been built for a thread id, no turn
\* written under that thread id before the construction is in the thread
\* or in a context block read from it, whether or not the thread held
\* turns beforehand.
C11_NewSessionResetsThread ==
    mem.constructed =>
        /\ \A i \in 1..Len(zep[mem.thread]) : zep[mem.thread][i].req = mem.epoch
        /\ (mem.read.done /\ ~mem.read.raised) =>
              \A i \in 1..Len(mem.read.context) : mem.read.context[i].req = mem.epoch

\* a thread that held turns was taken over by a new session, written to
\* and read
C11_Witness ==
    /\ mem.constructed
    /\ mem.had
    /\ mem.epoch > 1
    /\ mem.read.done
    /\ mem.read.context # <<>>

\* C12: a request's user turn is written to the thread named by the
\* request's thread_id (so that requests on different threads never read
\* each other's turns).
C12_TurnsGoToRequestThread ==
    "user_write" \in Events =>
        \E i \in 1..Len(zep[state.thread_id]) :
            /\ zep[state.thread_id][i].role = "user"
            /\ zep[state.thread_id][i].req = req

\* C13: a context block read after save_user_message and after the
\* settling delay is not empty and holds every user turn of the thread.
C13_MemoryRoundTrip ==
    (mem.constructed /\ mem.read.done /\ ~mem.read.raised /\ mem.read.settled) =>
        \A i \in 1..Len(zep[mem.thread]) :
            zep[mem.thread][i].role = "user" =>
                /\ mem.read.context # <<>>
                /\ \E j \in 1..Len(mem.read.context) :
                      mem.read.context[j] = zep[mem.thread][i]

\* a user turn was saved, the delay waited out, and the block read
C13_Witness ==
    /\ mem.constructed
    /\ mem.read.done /\ ~mem.read.raised /\ mem.read.settled
    /\ \E i \in 1..Len(zep[mem.thread]) : zep[mem.thread][i].role = "user"
    /\ \E j \in 1..Len(mem.read.context) : mem.read.context[j].role = "user"

\* C16: whenever the model's response is not valid JSON, or is JSON that
\* does not satisfy RESPONSE_SCHEMA, generate raises and returns no record.
C16_NonConformingResponseFails ==
    (gen.done /\ ~(/\ gen.response.kind = "json"
                   /\ "json_scalar" \notin DOMAIN gen.response.value
                   /\ SatisfiesSchema(gen.response.value)))
        => (gen.raised /\ gen.data = <<>>)

\* C14: a RAG call on an empty index without document paths returns
\* INSUFFICIENT_CONTEXT without ingesting or retrieving; with paths it
\* goes to ingestion first, retrieves only after rows were ingested, and
\* an OK answer cites rows of the documents it was given.
C14_LazyIngestOnEmptyIndex ==
    (lastCall.adapter = "RAG" /\ lastCall.before = <<>>) =>
        IF lastCall.document_paths = <<>>
        THEN /\ lastCall.rec.status = "INSUFFICIENT_CONTEXT"
             /\ lastCall.ingest = "none"
             /\ ~lastCall.searched
             /\ lastCall.added = 0
        ELSE /\ lastCall.ingest # "none"
             /\ lastCall.searched => (lastCall.ingest = "done" /\ lastCall.added > 0)
             /\ lastCall.rec.status = "OK" =>
                   /\ lastCall.searched
                   /\ \A i \in 1..Len(lastCall.rec.citations) :
                         /\ \E j \in 1..Len(lastCall.document_paths) :
                               lastCall.document_paths[j]
                                  = lastCall.rec.citations[i].source_file
                         /\ \E j \in 1..Len(index) :
                               /\ index[j].source_file
                                     = lastCall.rec.citations[i].source_file
                               /\ index[j].chunk_index
                                     = lastCall.rec.citations[i].chunk_index

\* an empty index was filled from the paths and the answer cites a new row
C14_Witness ==
    /\ lastCall.adapter = "RAG"
    /\ lastCall.before = <<>>
    /\ lastCall.document_paths # <<>>
    /\ lastCall.ingest = "done"
    /\ lastCall.rec.status = "OK"
    /\ lastCall.rec.citations # <<>>

\* C15: whenever process_documents fails on a document of the batch, the
\* index holds no row inserted by that call.
C15_IngestAllOrNothing ==
    (lastCall.adapter = "RAG" /\ lastCall.ingest = "failed") => lastCall.added = 0

\* what query hands back when a request completed
CompleteResponse(r) ==
    /\ {"final_response", "context_sources", "evaluation_result", "status"}
          \subseteq DOMAIN r
    /\ r.status = "completed"
    /\ DOMAIN r.context_sources = BundleKeys

\* C17: the caller of query receives either a complete response
\* (final_response, the four-key context_sources and evaluation_result,
\* status completed) or a failure carrying a reason, never a result with
\* only some of the fields.
C17_CompleteOrError ==
    /\ pc = "completed" => CompleteResponse(result)
    /\ pc = "failed" => (DOMAIN result = {"error"} /\ result.error # "")
    /\ \/ "none" \in DOMAIN result
       \/ DOMAIN result = {"error"}
       \/ CompleteResponse(result)

\* a completed request handed back its answer with a validated evaluation
C17_Witness ==
    /\ pc = "completed"
    /\ "final_response" \in DOMAIN result
    /\ result.final_response # <<>>
    /\ "relevant_sources" \in DOMAIN result.evaluation_result

\* C19: every field of the state returned by one stage is in the state
\* returned by the next, and context_sources, raw_results and query are
\* handed on unchanged.
C19_StateOnlyGrows ==
    [][pc' \in {"gathering", "evaluating", "synthesizing", "completed"} =>
          /\ DOMAIN flow_state \subseteq DOMAIN flow_state'
          /\ \A f \in {"query", "context_sources", "raw_results"} :
                f \in DOMAIN flow_state => flow_state'[f] = flow_state[f]]_vars

\* a completed request's state holds the fields of all four stages
C19_Witness ==
    /\ pc = "completed"
    /\ {"query", "status", "context_sources", "raw_results", "filtered_context",
        "evaluation_result", "evaluation_raw", "final_response", "synthesis_raw"}
          \subseteq DOMAIN flow_state
    /\ flow_state.context_sources.rag_result.status = "OK"

\* the adapter behind a bundle key and the position of its task's output
OwnSource(key) ==
    CASE key = "rag_result" -> "RAG"
      [] key = "memory_result" -> "MEMORY"
      [] key = "web_result" -> "WEB"
      [] key = "tool_result" -> "ARXIV"

OwnPosition(key) ==
    CASE key = "rag_result" -> 1
      [] key = "memory_result" -> 2
      [] key = "web_result" -> 3
      [] key = "tool_result" -> 4

C21_OnlyLazyIngestChangesIndex ==
    [][index' # index =>
          /\ lastCall = NoCall
          /\ lastCall'.adapter = "RAG"
          /\ lastCall'.ingest # "none"]_vars

WellFormedRecord(value) ==
    {"status", "source_used", "citations", "confidence"} \subseteq DOMAIN value

\* the evaluator's reply of this request was not a validated result
Degraded == \E i \in 1..Len(log) : log[i].ev = "evaluator" /\ ~log[i].pydantic

\* C23: whatever _parse_agent_result returns is a well-formed record: each
\* of the four gathered records and, on the evaluator's degraded path,
\* filtered_context has the fields of an Evidence Record, and a raw text
\* that is not a structured record gives status OK, source_used UNKNOWN,
\* confidence 0.5 and no citations
C23_ParseYieldsRecord ==
    /\ pc \in {"evaluating", "synthesizing", "completed"} =>
          \A k \in BundleKeys :
              /\ WellFormedRecord(flow_state.context_sources[k])
              /\ flow_state.raw_results[OwnPosition(k)].kind = "text" =>
                    /\ flow_state.context_sources[k].status = "OK"
                    /\ flow_state.context_sources[k].source_used = "UNKNOWN"
    /\ (pc \in {"synthesizing", "completed"} /\ Degraded) =>
          /\ WellFormedRecord(flow_state.filtered_context)
          /\ (\/ flow_state.evaluation_raw.kind = "text"
              \/ ~WellFormedRecord(flow_state.evaluation_raw.value)) =>
                /\ flow_state.filtered_context.status = "OK"
                /\ flow_state.filtered_context.source_used = "UNKNOWN"
                /\ flow_state.filtered_context.confidence = 50
                /\ flow_state.filtered_context.citations = <<>>

\* C24: the confidence of every record an adapter returns lies within
\* [0, 1] (0..100 hundredths), whatever its backend answered
C24_ConfidenceInUnitInterval ==
    (Called /\ ~lastCall.raised) =>
        /\ lastCall.rec.confidence >= 0
        /\ lastCall.rec.confidence <= 100

\* C25: an adapter checks its result count before it calls its backend: a
\* top_k that is not a positive integer never reaches the vector search
C25_ResultCountValidated ==
    (lastCall.adapter = "RAG" /\ lastCall.searched) => lastCall.top_k >= 1

\* C26: in every record an adapter returns, status OK comes with at least
\* one citation, and status INSUFFICIENT_CONTEXT or ERROR comes with no
\* citation and confidence 0.0
C26_StatusMatchesCitations ==
    (Called /\ ~lastCall.raised) =>
        /\ lastCall.rec.status \in {"OK", "INSUFFICIENT_CONTEXT", "ERROR"}
        /\ lastCall.rec.status = "OK" => lastCall.rec.citations # <<>>
        /\ lastCall.rec.status # "OK" =>
              /\ lastCall.rec.citations = <<>>
              /\ lastCall.rec.confidence = 0

\* the web search returned results, none of them readable
C26_Witness ==
    /\ lastCall.adapter = "WEB"
    /\ ~lastCall.backendThrew
    /\ ~lastCall.emptyResult
    /\ lastCall.rec.status = "INSUFFICIENT_CONTEXT"
    /\ lastCall.rec.citations = <<>>

\* the number of turns of a role the current request has in the thread
Writes(role) ==
    Cardinality({k \in 1..Len(zep[FlowThread]) :
                    /\ zep[FlowThread][k].role = role
                    /\ zep[FlowThread][k].req = req})

C28_NoIngestOnPopulatedIndex ==
    (lastCall.adapter = "RAG" /\ lastCall.before # <<>>) =>
        /\ lastCall.ingest = "none"
        /\ lastCall.added = 0

\* C29: on the evaluator's degraded path evaluation_result holds
\* raw_fallback and nothing else (no relevant_sources, relevance_scores or
\* reasoning), and filtered_context is what _parse_agent_result makes of
\* the raw text: for text that is not JSON the wrapper with status OK and
\* source_used UNKNOWN around that text, not a mapping keyed by source name
C29_DegradedShape ==
    (pc \in {"synthesizing", "completed"} /\ Degraded) =>
        /\ DOMAIN flow_state.evaluation_result = {"raw_fallback"}
        /\ flow_state.filtered_context = _parse_agent_result(flow_state.evaluation_raw)
        /\ flow_state.evaluation_raw.kind = "text" =>
              /\ flow_state.filtered_context.status = "OK"
              /\ flow_state.filtered_context.source_used = "UNKNOWN"
              /\ flow_state.filtered_context.answer = flow_state.evaluation_raw.value
              /\ DOMAIN flow_state.filtered_context \cap BundleKeys = {}

\* the synthesizing stage is entered with the wrapper of the evaluator's
\* prose as filtered_context
C29_Witness ==
    /\ pc = "synthesizing"
    /\ Degraded
    /\ flow_state.evaluation_raw.kind = "text"
    /\ flow_state.filtered_context.source_used = "UNKNOWN"
    /\ "relevant_sources" \notin DOMAIN flow_state.evaluation_result

\* C30: the workflow never waits out the settling delay: nothing but
\* adapter calls lies between a request's user-turn write and the Memory
\* adapter's read in gathering, and no wait_for_indexing occurs in a
\* request, so the read is one of a thread still being indexed
C30_NoSettlingWait ==
    /\ "wait_for_indexing" \notin Events
    /\ \A i \in 1..Len(log) :
          log[i].ev = "memory_tool" =>
              \E j \in 1..(i - 1) :
                  /\ log[j].ev = "user_write"
                  /\ \A k \in (j + 1)..(i - 1) : log[k].ev \in ToolEvents

\* on the thread's first request the Memory adapter answered
\* INSUFFICIENT_CONTEXT although the request's user turn was in the thread
C30_Witness ==
    /\ req = 1
    /\ pc = "evaluating"
    /\ Writes("user") = 1
    /\ Len(zep[FlowThread]) = 1
    /\ flow_state.raw_results[2].kind = "json"
    /\ flow_state.context_sources.memory_result.status = "INSUFFICIENT_CONTEXT"

====
